---- MODULE Spec2Model ----
(***************************************************************************)
(* A model of sqlsync's in-memory Journal<T> (lib/sqlsync/src/journal.rs): *)
(* a dense backing sequence `data` and a logical LSN range [start, end).   *)
(* Every public method is a pure operator that returns the outcome of the  *)
(* call (its status, the journal fields as the call leaves them, and the   *)
(* returned value); one action per method applies it to the journal.       *)
(***************************************************************************)
EXTENDS Integers, Sequences, FiniteSets, TLC

\* ---------------------------------------------------------------- bounds
MaxLsn == 3        \* range.end never grows beyond this in the model
MaxData == 4       \* data.len() never grows beyond this in the model
MaxEntry == 2      \* entries (the type T) are 1..MaxEntry
MaxBatchLen == 2   \* longest batch handed to write
MaxReadLen == 3    \* largest max_len handed to read
NumPageIdx == 3    \* how many distinct page indices are used
NumPageVals == 2   \* how many distinct page contents are used
EdgeWidth == 1     \* offsets and lengths are taken this close to 0 and to PAGESIZE
MaxLookups == 2    \* concurrent lookups over one snapshot

Entries == 1..MaxEntry
Lsns == 0..(MaxLsn + 1)

RECURSIVE SeqsUpTo(_)
SeqsUpTo(n) ==
    IF n = 0 THEN {<<>>}
    ELSE LET shorter == SeqsUpTo(n - 1)
         IN  shorter \cup {Append(s, e) : s \in {t \in shorter : Len(t) = n - 1}, e \in Entries}

\* struct Batch { start, data }
Batches == [start : Lsns, data : SeqsUpTo(MaxBatchLen)]

\* "no batch remembered yet"
NoBatch == [start |-> 0 - 1, data |-> <<>>]

Min(a, b) == IF a < b THEN a ELSE b

\* ------------------------------------------------------------ the state
VARIABLES
    range,      \* Journal.range : [start, end]
    data,       \* Journal.data  : the backing Vec<T>
    last,       \* the last call: its method and how it ended
    delivered   \* history: one batch that an earlier write applied

vars == <<range, data, last, delivered>>

\* The page store, its serialized snapshot and the lookups running over it.
VARIABLES
    pages,      \* SparsePages.pages : page index -> page (named by its number)
    written,    \* history: the page last written at each index since the last clear
    snap,       \* the store the backing bytes were serialized from (immutable)
    plast,      \* the last page-store or reader call and how it ended
    lookups,    \* the SerializedPagesReader::read calls in progress
    idxbufs     \* the page_idx_buf of each call in progress

\* A second journal, the replica that catches up with the first.
VARIABLES
    rangeB,     \* the replica's Journal.range
    dataB       \* the replica's Journal.data

pvars == <<pages, written, snap, plast, lookups, idxbufs>>
bvars == <<rangeB, dataB>>

NoPages == [i \in {} |-> 0]

\* The values these variables keep while a specification does not use them.
PagesIdle ==
    /\ pages = NoPages
    /\ written = NoPages
    /\ snap = NoPages
    /\ plast = [op |-> "new", status |-> "ok"]
    /\ lookups = <<>>
    /\ idxbufs = <<>>

ReplicaIdle ==
    /\ rangeB = [start |-> 0, end |-> 0]
    /\ dataB = <<>>

\* Journal::new
Journal_new == [range |-> [start |-> 0, end |-> 0], data |-> <<>>]

\* The representation: data[i] holds the entry with LSN range.start + i.
EntryAt(r, d, n) == d[(n - r.start) + 1]

\* The entries at sequence numbers [from, to), in order.
EntriesIn(r, d, from, to) == [i \in 1..(to - from) |-> EntryAt(r, d, from + i - 1)]

\* Journal::end.  The set of outcomes: `range.end - 1` on a u64 that is 0
\* panics in a build with overflow checks and wraps to u64::MAX without.
Journal_end(r, d) ==
    IF Len(d) = 0 THEN {[status |-> "EmptyJournal"]}
    ELSE IF r.end = 0 THEN {[status |-> "panic_overflow"], [status |-> "ok_wrapped"]}
    ELSE {[status |-> "ok", lsn |-> r.end - 1]}

\* Journal::append
Journal_append(r, d, entry) ==
    [status |-> "ok",
     range  |-> [start |-> r.start, end |-> r.end + 1],
     data   |-> Append(d, entry)]

\* Journal::write as it would be if a batch that ends before the tail were
\* taken as an empty suffix and the tail still set from the batch.
Journal_write_truncating(r, d, batch) ==
    IF ~(batch.start >= r.start) THEN [status |-> "assert_start", range |-> r, data |-> d]
    ELSE IF ~(batch.start <= r.end) THEN [status |-> "assert_end", range |-> r, data |-> d]
    ELSE LET offset == r.end - batch.start
         IN  [status |-> "ok",
              range  |-> [start |-> r.start, end |-> batch.start + Len(batch.data)],
              data   |-> d \o SubSeq(batch.data, offset + 1, Len(batch.data))]

\* Journal::write as it would be without its first assertion.
Journal_write_noStartAssert(r, d, batch) ==
    IF ~(batch.start <= r.end) THEN [status |-> "assert_end", range |-> r, data |-> d]
    ELSE LET offset == r.end - batch.start
         IN  IF offset > Len(batch.data)
             THEN [status |-> "slice_panic", range |-> r, data |-> d]
             ELSE [status |-> "ok",
                   range  |-> [start |-> r.start, end |-> batch.start + Len(batch.data)],
                   data   |-> d \o SubSeq(batch.data, offset + 1, Len(batch.data))]

\* Journal::write.  A failing call panics before the first assignment.
Journal_write(r, d, batch) ==
    IF ~(batch.start >= r.start) THEN [status |-> "assert_start", range |-> r, data |-> d]
    ELSE IF ~(batch.start <= r.end) THEN [status |-> "assert_end", range |-> r, data |-> d]
    ELSE LET offset == r.end - batch.start
         IN  IF offset > Len(batch.data)
             THEN [status |-> "slice_panic", range |-> r, data |-> d]
             ELSE [status |-> "ok",
                   range  |-> [start |-> r.start, end |-> batch.start + Len(batch.data)],
                   data   |-> d \o SubSeq(batch.data, offset + 1, Len(batch.data))]

\* Journal::read
Journal_read(r, d, lsn, max_len) ==
    IF ~(lsn >= r.start) THEN [status |-> "assert_start"]
    ELSE IF ~(lsn < r.end) THEN [status |-> "assert_end"]
    ELSE LET offset == lsn - r.start
             end    == Min(offset + max_len, r.end)
         IN  IF offset > end \/ end > Len(d)
             THEN [status |-> "slice_panic"]
             ELSE [status |-> "ok",
                   batch  |-> [start |-> lsn, data |-> SubSeq(d, offset + 1, end)]]

\* The optional compactor of rollup: a FnOnce called at most once, so it is
\* given by the entry it returns for the iterator it is handed.
NoCompactor == [some |-> FALSE]
Compactors == {[some |-> TRUE, ret |-> e] : e \in Entries}

\* Journal::rollup.  `seen` is what the compactor's iterator yields.
Journal_rollup(r, d, lsn, cb) ==
    IF ~(lsn >= r.start) THEN [status |-> "assert_start", range |-> r, data |-> d, seen |-> <<>>]
    ELSE IF ~(lsn <= r.end) THEN [status |-> "assert_end", range |-> r, data |-> d, seen |-> <<>>]
    ELSE LET offset == lsn - r.start
             tail   == SubSeq(d, offset + 1, Len(d))
         IN  IF cb.some
             THEN [status |-> "ok",
                   range  |-> [start |-> lsn, end |-> r.end],
                   data   |-> <<cb.ret>> \o tail,
                   seen   |-> tail]
             ELSE [status |-> "ok",
                   range  |-> [start |-> lsn, end |-> r.end],
                   data   |-> tail,
                   seen   |-> <<>>]

\* Journal::iter
Journal_iter(r, d) == d

\* ---------------------------------------------------------- the actions
Init ==
    /\ range = Journal_new.range
    /\ data = Journal_new.data
    /\ last = [op |-> "new", status |-> "ok"]
    /\ delivered = NoBatch
    /\ PagesIdle
    /\ ReplicaIdle

InBounds(out) == out.range.end <= MaxLsn /\ Len(out.data) <= MaxData

\* A &mut self method: the journal becomes what the call leaves behind.
Mutate(op, out) ==
    /\ InBounds(out)
    /\ last' = [op |-> op, status |-> out.status]
    /\ range' = out.range
    /\ data' = out.data
    /\ UNCHANGED <<pvars, bvars>>

\* A &self method: the journal is only read.
Query(op, out) ==
    /\ last' = [op |-> op, status |-> out.status]
    /\ UNCHANGED <<range, data, pvars, bvars>>

End ==
    /\ \E out \in Journal_end(range, data) : Query("end", out)
    /\ UNCHANGED delivered

AppendEntry ==
    /\ \E e \in Entries : Mutate("append", Journal_append(range, data, e))
    /\ UNCHANGED delivered

Write ==
    /\ \E b \in Batches : Mutate("write", Journal_write(range, data, b))
    /\ UNCHANGED delivered

Read ==
    /\ \E lsn \in Lsns, max_len \in 0..MaxReadLen :
          Query("read", Journal_read(range, data, lsn, max_len))
    /\ UNCHANGED delivered

Rollup ==
    \E lsn \in Lsns, cb \in {NoCompactor} \cup Compactors :
       LET out == Journal_rollup(range, data, lsn, cb)
       IN  /\ Mutate("rollup", out)
           /\ delivered' = IF out.status = "ok" THEN NoBatch ELSE delivered

Next == End \/ AppendEntry \/ Write \/ Read \/ Rollup

Spec == Init /\ [][Next]_vars

\* A write of a non-empty batch that succeeds and is remembered, so that the
\* same batch can be delivered again later; a rollup in between forgets it.
Deliver ==
    \E b \in Batches :
       LET out == Journal_write(range, data, b)
       IN  /\ Len(b.data) > 0
           /\ out.status = "ok"
           /\ Mutate("write", out)
           /\ delivered' = b

NextDelivery == Next \/ Deliver

SpecDelivery == Init /\ [][NextDelivery]_vars

\* ------------------------------------------------------------ the claims
Retained == Journal_iter(range, data)

AssertFailed(out) == out.status \in {"assert_start", "assert_end"}

\* C1: in every reachable journal state, range.end - range.start equals the
\* number of entries held in the backing sequence (data.len()).
C1_RangeMatchesData == range.end - range.start = Len(data)

\* C2: for every cursor with range.start <= lsn < range.end and every max_len,
\* read succeeds and returns a Batch that starts at lsn and holds exactly the
\* entries at sequence numbers [lsn, min(lsn + max_len, range.end)), in order.
C2_ReadSpan ==
    \A lsn \in range.start..(range.end - 1), max_len \in 0..MaxReadLen :
       LET out == Journal_read(range, data, lsn, max_len)
       IN  /\ out.status = "ok"
           /\ out.batch.start = lsn
           /\ out.batch.data = EntriesIn(range, data, lsn, Min(lsn + max_len, range.end))

\* C3: with tail T = range.end and a batch with range.start <= batch.start <= T,
\* after write(batch) every entry at a sequence number below T keeps its prior
\* value, the entries at sequence numbers [T, batch.start + len) are the
\* corresponding entries of the batch, and range.end is batch.start + len.
C3_WriteMerges ==
    \A b \in Batches :
       LET out == Journal_write(range, data, b)
           T   == range.end
       IN  (range.start <= b.start /\ b.start <= T /\ out.status = "ok") =>
              /\ \A n \in range.start..(T - 1) :
                    EntryAt(out.range, out.data, n) = EntryAt(range, data, n)
              /\ \A n \in T..(b.start + Len(b.data) - 1) :
                    EntryAt(out.range, out.data, n) = b.data[(n - b.start) + 1]
              /\ out.range.end = b.start + Len(b.data)

\* C4: a batch that an earlier write applied can be written again, right away
\* or after further appends and writes, while batch.start >= range.start: the
\* call succeeds and leaves the range and the retained entries as they were.
C4_RedeliveryIdempotent ==
    (delivered # NoBatch /\ delivered.start >= range.start) =>
       LET out == Journal_write(range, data, delivered)
       IN  /\ out.status = "ok"
           /\ out.range = range
           /\ out.data = data

\* C5: for every k with range.start <= k <= range.end, rollup(cursor(k), none)
\* sets range.start to k, keeps range.end, and retains exactly the prior
\* entries with sequence number >= k, in order.
C5_RollupPlain ==
    \A k \in range.start..range.end :
       LET out == Journal_rollup(range, data, k, NoCompactor)
       IN  /\ out.status = "ok"
           /\ out.range = [start |-> k, end |-> range.end]
           /\ Journal_iter(out.range, out.data) = EntriesIn(range, data, k, range.end)

\* C6: for every k with range.start <= k <= range.end, rollup(cursor(k),
\* compactor) hands the compactor exactly the entries with sequence number
\* >= k, then retains the synthesized entry followed by exactly those
\* entries, and sets range.start to k.
C6_RollupCompacting ==
    \A k \in range.start..range.end, cb \in Compactors :
       LET out  == Journal_rollup(range, data, k, cb)
           kept == EntriesIn(range, data, k, range.end)
       IN  /\ out.status = "ok"
           /\ out.seen = kept
           /\ Journal_iter(out.range, out.data) = <<cb.ret>> \o kept
           /\ out.range.start = k

\* C7: end() fails with the empty-journal error when range.start = range.end,
\* and otherwise returns the cursor range.end - 1, which lies in
\* [range.start, range.end) and is accepted by read; it never computes
\* range.end - 1 when range.end is 0.
C7_EndCursor ==
    \A out \in Journal_end(range, data) :
       IF range.start = range.end
       THEN out.status = "EmptyJournal"
       ELSE /\ out.status = "ok"
            /\ out.lsn = range.end - 1
            /\ range.start <= out.lsn /\ out.lsn < range.end
            /\ Journal_read(range, data, out.lsn, 1).status = "ok"

\* C8: with tail T = range.end, append(e) followed by end() yields the cursor
\* T, and read(that cursor, 1) returns exactly [e].
C8_AppendEndRead ==
    \A e \in Entries :
       LET a == Journal_append(range, data, e)
       IN  \A c \in Journal_end(a.range, a.data) :
              /\ c.status = "ok"
              /\ c.lsn = range.end
              /\ LET r == Journal_read(a.range, a.data, c.lsn, 1)
                 IN  r.status = "ok" /\ r.batch.data = <<e>>

\* C9: across every step of every sequence of append, write and rollup calls,
\* successful or failing, neither range.start nor range.end decreases, and
\* range.start <= range.end holds in every reachable state.
C9_RangeMonotone ==
    /\ [](range.start <= range.end)
    /\ [][range'.start >= range.start /\ range'.end >= range.end]_vars

\* C9 witness: a rollup has moved range.start up in a journal whose tail has
\* been advanced beyond it.
C9_Witness ==
    /\ last = [op |-> "rollup", status |-> "ok"]
    /\ range.start > 0
    /\ range.end > range.start

\* C10: a write with batch.start outside [range.start, range.end], a read with
\* a cursor outside [range.start, range.end) and a rollup with a cursor
\* outside [range.start, range.end] fail with a contract violation, and any
\* failing call leaves the range and the retained entries as they were.
C10_Rejected ==
    /\ [](\A b \in Batches :
            LET out == Journal_write(range, data, b)
            IN  /\ (b.start < range.start \/ b.start > range.end) => AssertFailed(out)
                /\ out.status # "ok" => (out.range = range /\ out.data = data))
    /\ [](\A lsn \in Lsns, max_len \in 0..MaxReadLen :
            (lsn < range.start \/ lsn >= range.end) =>
               AssertFailed(Journal_read(range, data, lsn, max_len)))
    /\ [](\A lsn \in Lsns, cb \in {NoCompactor} \cup Compactors :
            LET out == Journal_rollup(range, data, lsn, cb)
            IN  /\ (lsn < range.start \/ lsn > range.end) => AssertFailed(out)
                /\ out.status # "ok" => (out.range = range /\ out.data = data))
    /\ [][last'.status # "ok" => (range' = range /\ data' = data)]_vars

\* C10 witness: a write whose batch starts before range.start has just been
\* rejected by a journal that had been rolled up and still retains entries.
C10_Witness ==
    /\ last = [op |-> "write", status |-> "assert_start"]
    /\ range.start > 0
    /\ Len(Retained) > 0

\* C17: retained history is immutable: once read(cursor(p), 1) returns entry
\* e, read(cursor(p), 1) returns e in every later state in which p is still in
\* [range.start, range.end).  Both ends of the range only move up (C9), so p
\* stays in range in between and the claim is that no step changes the entry.
C17_HistoryImmutable ==
    [][\A p \in Lsns :
          LET before == Journal_read(range, data, p, 1)
              after  == Journal_read(range', data', p, 1)
          IN  (before.status = "ok" /\ range'.start <= p /\ p < range'.end) =>
                 (after.status = "ok" /\ after.batch.data = before.batch.data)]_vars

\* ============================================================ page.rs
\* pub const PAGESIZE, const PAGE_IDX_SIZE = size_of::<u64>()
PAGESIZE == 4096
PAGE_IDX_SIZE == 8

\* The page indices (u64) in use: 250, 500, ... so that their big-endian
\* encodings differ in more than the last byte.
PageIdxs == {k * 250 : k \in 1..NumPageIdx}

\* The page contents in use: [u8; PAGESIZE], any two different at every offset.
\* A page is named by its number k and stands for PageTable[k].
PageVals == 1..NumPageVals
PageTable == [k \in PageVals |-> [i \in 1..PAGESIZE |-> ((i * (2 * k + 1)) + k) % 256]]

\* The offsets and buffer lengths handed to read: around 0 and around PAGESIZE.
Offsets == (0..EdgeWidth) \cup ((PAGESIZE - EdgeWidth)..PAGESIZE)
BufLens == (0..EdgeWidth) \cup ((PAGESIZE - EdgeWidth)..(PAGESIZE + 1))

\* A destination buffer of the given length, with the bytes it held before.
Buf(len) == [i \in 1..len |-> 255]

\* SparsePages::new
SparsePages_new == NoPages

\* SparsePages::num_pages
SparsePages_num_pages(pg) == Cardinality(DOMAIN pg)

\* SparsePages::clear
SparsePages_clear(pg) == NoPages

\* SparsePages::write as it would be with entry(page_idx).or_insert(page),
\* which keeps a page that is already there.
SparsePages_write_keepFirst(pg, page_idx, page) ==
    [i \in (DOMAIN pg) \cup {page_idx} |-> IF i \in DOMAIN pg THEN pg[i] ELSE page]

\* SparsePages::write (BTreeMap::insert)
SparsePages_write(pg, page_idx, page) ==
    [i \in (DOMAIN pg) \cup {page_idx} |-> IF i = page_idx THEN page ELSE pg[i]]

\* SparsePages::max_page_idx
SparsePages_max_page_idx(pg) ==
    IF DOMAIN pg = {} THEN [some |-> FALSE]
    ELSE [some |-> TRUE, idx |-> CHOOSE m \in DOMAIN pg : \A i \in DOMAIN pg : i <= m]

\* SparsePages::read.  The bounds assertion sits inside the closure that
\* runs only when the page is present.
SparsePages_read(pg, page_idx, page_offset, buf) ==
    IF page_idx \notin DOMAIN pg THEN [status |-> "ok", n |-> 0, buf |-> buf]
    ELSE LET end == page_offset + Len(buf)
         IN  IF ~(end <= PAGESIZE)
             THEN [status |-> "assert_bounds", n |-> 0, buf |-> buf]
             ELSE [status |-> "ok",
                   n      |-> Len(buf),
                   buf    |-> SubSeq(PageTable[pg[page_idx]], page_offset + 1, end)]

\* u64::to_be_bytes, for the values below 2^31 that the model uses.
to_be_bytes(n) ==
    [i \in 1..PAGE_IDX_SIZE |->
        IF i <= 4 THEN 0 ELSE (n \div (256 ^ (PAGE_IDX_SIZE - i))) % 256]

\* u64::from_be_bytes
RECURSIVE be_fold(_, _, _)
be_fold(b, i, acc) == IF i > Len(b) THEN acc ELSE be_fold(b, i + 1, acc * 256 + b[i])
from_be_bytes(b) == be_fold(b, 1, 0)

\* BTreeMap::iter: the keys in ascending order.
RECURSIVE SortedKeys(_)
SortedKeys(S) ==
    IF S = {} THEN <<>>
    ELSE LET m == CHOOSE x \in S : \A y \in S : x <= y
         IN  <<m>> \o SortedKeys(S \ {m})

RECURSIVE serialize_records(_, _, _)
serialize_records(pg, keys, i) ==
    IF i > Len(keys) THEN <<>>
    ELSE to_be_bytes(keys[i]) \o PageTable[pg[keys[i]]] \o serialize_records(pg, keys, i + 1)

\* <SparsePages as Serializable>::serialize_into: the bytes written.
SparsePages_serialize_into(pg) ==
    IF ~(SparsePages_num_pages(pg) > 0) THEN [status |-> "assert_empty", bytes |-> <<>>]
    ELSE [status |-> "ok",
          bytes  |-> to_be_bytes(SparsePages_max_page_idx(pg).idx)
                        \o serialize_records(pg, SortedKeys(DOMAIN pg), 1)]

\* PositionedReader::size and PositionedReader::read_exact_at over a byte
\* sequence: exactly n bytes at an absolute offset, or an I/O failure.
PositionedReader_size(bytes) == Len(bytes)
PositionedReader_read_exact_at(bytes, pos, n) ==
    IF pos + n <= Len(bytes)
    THEN [status |-> "ok", bytes |-> SubSeq(bytes, pos + 1, pos + n)]
    ELSE [status |-> "IoFailure", bytes |-> <<>>]

\* SerializedPagesReader::num_pages
SerializedPagesReader_num_pages(bytes) ==
    (PositionedReader_size(bytes) - PAGE_IDX_SIZE) \div (PAGE_IDX_SIZE + PAGESIZE)

\* SerializedPagesReader::max_page_idx
SerializedPagesReader_max_page_idx(bytes) ==
    LET rd == PositionedReader_read_exact_at(bytes, 0, PAGE_IDX_SIZE)
    IN  IF rd.status = "ok" THEN [status |-> "ok", idx |-> from_be_bytes(rd.bytes)]
        ELSE [status |-> rd.status]

\* The midpoint as it would be in a scan from the left end.
probe_mid_linear(left, right) == left

\* The midpoint probed by one iteration of the search loop.
probe_mid(left, right) == left + ((right - left) \div 2)
probe_offset(mid) == PAGE_IDX_SIZE + (mid * (PAGE_IDX_SIZE + PAGESIZE))

\* What one iteration of the loop decides from the index it has read.
probe_decide(mid_idx, page_idx, left, right) ==
    LET mid == probe_mid(left, right)
    IN  IF mid_idx = page_idx THEN [kind |-> "hit", left |-> left, right |-> right]
        ELSE IF mid_idx < page_idx THEN [kind |-> "go", left |-> mid + 1, right |-> right]
        ELSE [kind |-> "go", left |-> left, right |-> mid]

\* The loop of SerializedPagesReader::read, counting its positioned reads.
RECURSIVE reader_search(_, _, _, _, _, _, _)
reader_search(bytes, page_idx, page_offset, buf, left, right, reads) ==
    IF ~(left < right)
    THEN [status |-> "ok", n |-> 0, buf |-> buf, idx_reads |-> reads, data_reads |-> 0]
    ELSE LET mid_offset == probe_offset(probe_mid(left, right))
             rd         == PositionedReader_read_exact_at(bytes, mid_offset, PAGE_IDX_SIZE)
             d          == probe_decide(from_be_bytes(rd.bytes), page_idx, left, right)
         IN  IF rd.status # "ok"
             THEN [status |-> rd.status, n |-> 0, buf |-> buf,
                   idx_reads |-> reads + 1, data_reads |-> 0]
             ELSE IF d.kind = "hit"
             THEN LET read_start == mid_offset + PAGE_IDX_SIZE + page_offset
                      rb         == PositionedReader_read_exact_at(bytes, read_start, Len(buf))
                  IN  IF rb.status = "ok"
                      THEN [status |-> "ok", n |-> Len(buf), buf |-> rb.bytes,
                            idx_reads |-> reads + 1, data_reads |-> 1]
                      ELSE [status |-> rb.status, n |-> 0, buf |-> buf,
                            idx_reads |-> reads + 1, data_reads |-> 1]
             ELSE reader_search(bytes, page_idx, page_offset, buf, d.left, d.right, reads + 1)

\* SerializedPagesReader::read
SerializedPagesReader_read(bytes, page_idx, page_offset, buf) ==
    IF ~(page_offset < PAGESIZE)
    THEN [status |-> "assert_offset", n |-> 0, buf |-> buf, idx_reads |-> 0, data_reads |-> 0]
    ELSE IF ~(page_offset + Len(buf) <= PAGESIZE)
    THEN [status |-> "assert_bounds", n |-> 0, buf |-> buf, idx_reads |-> 0, data_reads |-> 0]
    ELSE reader_search(bytes, page_idx, page_offset, buf,
                       0, SerializedPagesReader_num_pages(bytes), 0)

\* ------------------------------------------------- the page-store actions
JournalIdle ==
    /\ range = Journal_new.range
    /\ data = Journal_new.data
    /\ last = [op |-> "new", status |-> "ok"]
    /\ delivered = NoBatch

PagesInit == PagesIdle /\ ReplicaIdle /\ JournalIdle

PagesWrite ==
    /\ \E idx \in PageIdxs, page \in PageVals :
          /\ pages' = SparsePages_write(pages, idx, page)
          /\ written' = [i \in (DOMAIN written) \cup {idx} |->
                            IF i = idx THEN page ELSE written[i]]
    /\ plast' = [op |-> "write", status |-> "ok"]
    /\ UNCHANGED <<snap, lookups, idxbufs, vars, bvars>>

PagesClear ==
    /\ pages' = SparsePages_clear(pages)
    /\ written' = NoPages
    /\ plast' = [op |-> "clear", status |-> "ok"]
    /\ UNCHANGED <<snap, lookups, idxbufs, vars, bvars>>

PagesRead ==
    /\ \E idx \in PageIdxs, off \in Offsets, len \in BufLens :
          LET out == SparsePages_read(pages, idx, off, Buf(len))
          IN  plast' = [op |-> "read", status |-> out.status, n |-> out.n]
    /\ UNCHANGED <<pages, written, snap, lookups, idxbufs, vars, bvars>>

PagesSerialize ==
    /\ plast' = [op |-> "serialize_into",
                 status |-> SparsePages_serialize_into(pages).status]
    /\ UNCHANGED <<pages, written, snap, lookups, idxbufs, vars, bvars>>

PagesNext == PagesWrite \/ PagesClear \/ PagesRead \/ PagesSerialize

SpecPages == PagesInit /\ [][PagesNext]_pvars

\* ------------------------------------------------- concurrent lookups
\* The snapshots read: a store with a page at each index of a non-empty set.
SnapOf(S) == [i \in S |-> ((i \div 250) % NumPageVals) + 1]
Snaps == {SnapOf(S) : S \in (SUBSET PageIdxs) \ {{}}}

\* The backing bytes of each snapshot, written by serialize_into.
BackingTable == [sn \in Snaps |-> SparsePages_serialize_into(sn).bytes]
Backing == BackingTable[snap]

Lookups == 1..MaxLookups

\* The (offset, len(buf)) of a lookup: a short read inside the page, and the
\* request at the very end of the page.
LookupArgs == {[off |-> EdgeWidth, len |-> EdgeWidth + 1], [off |-> PAGESIZE, len |-> 0]}

IdleLookup ==
    [pc |-> "idle", page_idx |-> 0, off |-> 0, len |-> 0, left |-> 0, right |-> 0,
     idx_reads |-> 0, data_reads |-> 0, result |-> [status |-> "none"]]

\* page_idx_buf is a local of the call: each lookup has its own.
BufSlot_shared(self) == 1

BufSlot(self) == self

ReaderInit ==
    /\ snap \in Snaps
    /\ lookups = [self \in Lookups |-> IdleLookup]
    /\ idxbufs = [slot \in Lookups |-> [i \in 1..PAGE_IDX_SIZE |-> 0]]
    /\ pages = NoPages
    /\ written = NoPages
    /\ plast = [op |-> "new", status |-> "ok"]
    /\ ReplicaIdle
    /\ JournalIdle

Done(l, status, n, buf) ==
    [l EXCEPT !.pc = "done", !.result = [status |-> status, n |-> n, buf |-> buf]]

\* The call begins: the two assertions, then num_pages.
Begin(self) ==
    /\ lookups[self].pc = "idle"
    /\ \E idx \in PageIdxs, a \in LookupArgs :
          LET l == [IdleLookup EXCEPT !.page_idx = idx, !.off = a.off, !.len = a.len]
          IN  lookups' = [lookups EXCEPT ![self] =
                 IF ~(a.off < PAGESIZE) THEN Done(l, "assert_offset", 0, Buf(a.len))
                 ELSE IF ~(a.off + a.len <= PAGESIZE) THEN Done(l, "assert_bounds", 0, Buf(a.len))
                 ELSE [l EXCEPT !.pc = "loop", !.left = 0,
                                !.right = SerializedPagesReader_num_pages(Backing)]]
    /\ UNCHANGED <<idxbufs, snap, pages, written, plast, vars, bvars>>

\* The loop test and the positioned read of the page_idx field at the midpoint.
ReadIdx(self) ==
    LET l == lookups[self]
    IN  /\ l.pc = "loop"
        /\ IF ~(l.left < l.right)
           THEN /\ lookups' = [lookups EXCEPT ![self] = Done(l, "ok", 0, Buf(l.len))]
                /\ UNCHANGED idxbufs
           ELSE LET rd == PositionedReader_read_exact_at(
                             Backing, probe_offset(probe_mid(l.left, l.right)), PAGE_IDX_SIZE)
                IN  IF rd.status = "ok"
                    THEN /\ idxbufs' = [idxbufs EXCEPT ![BufSlot(self)] = rd.bytes]
                         /\ lookups' = [lookups EXCEPT ![self] =
                               [l EXCEPT !.pc = "decide", !.idx_reads = @ + 1]]
                    ELSE /\ lookups' = [lookups EXCEPT ![self] =
                               Done([l EXCEPT !.idx_reads = @ + 1], rd.status, 0, Buf(l.len))]
                         /\ UNCHANGED idxbufs
        /\ UNCHANGED <<snap, pages, written, plast, vars, bvars>>

\* The comparison of the index read with page_idx.
Decide(self) ==
    LET l == lookups[self]
        d == probe_decide(from_be_bytes(idxbufs[BufSlot(self)]), l.page_idx, l.left, l.right)
    IN  /\ l.pc = "decide"
        /\ lookups' = [lookups EXCEPT ![self] =
              IF d.kind = "hit" THEN [l EXCEPT !.pc = "copy"]
              ELSE [l EXCEPT !.pc = "loop", !.left = d.left, !.right = d.right]]
        /\ UNCHANGED <<idxbufs, snap, pages, written, plast, vars, bvars>>

\* On a match: the positioned read of len(buf) bytes into buf.
Copy(self) ==
    LET l          == lookups[self]
        mid_offset == probe_offset(probe_mid(l.left, l.right))
        rb         == PositionedReader_read_exact_at(
                         Backing, mid_offset + PAGE_IDX_SIZE + l.off, l.len)
        counted    == [l EXCEPT !.data_reads = @ + 1]
    IN  /\ l.pc = "copy"
        /\ lookups' = [lookups EXCEPT ![self] =
              IF rb.status = "ok" THEN Done(counted, "ok", l.len, rb.bytes)
              ELSE Done(counted, rb.status, 0, Buf(l.len))]
        /\ UNCHANGED <<idxbufs, snap, pages, written, plast, vars, bvars>>

\* The call has returned; its slot is free for the next call.
Return(self) ==
    /\ lookups[self].pc = "done"
    /\ lookups' = [lookups EXCEPT ![self] = IdleLookup]
    /\ UNCHANGED <<idxbufs, snap, pages, written, plast, vars, bvars>>

ReaderNext ==
    \E self \in Lookups :
       Begin(self) \/ ReadIdx(self) \/ Decide(self) \/ Copy(self) \/ Return(self)

SpecReader == ReaderInit /\ [][ReaderNext]_pvars

\* ------------------------------------------------------ the reader claims
\* What the lookup returns when it runs alone over the backing bytes.
Alone(l) ==
    LET r == SerializedPagesReader_read(Backing, l.page_idx, l.off, Buf(l.len))
    IN  [status |-> r.status, n |-> r.n, buf |-> r.buf]

\* C15: under every interleaving of the positioned reads of concurrent
\* lookups over one immutable snapshot, each lookup returns the byte count
\* and bytes it returns when run alone, and the backing bytes never change.
C15_LookupsIndependent ==
    /\ [](\A self \in Lookups :
            lookups[self].pc = "done" => lookups[self].result = Alone(lookups[self]))
    /\ [][snap' = snap]_pvars

\* C15 witness: two lookups for different pages are in progress at once,
\* each between an index read and its comparison, and not in their first
\* iteration.
C15_Witness ==
    /\ lookups[1].pc = "decide" /\ lookups[2].pc = "decide"
    /\ lookups[1].page_idx # lookups[2].page_idx
    /\ lookups[1].idx_reads >= 2 /\ lookups[2].idx_reads >= 2

RECURSIVE FloorLog2(_)
FloorLog2(n) == IF n <= 1 THEN 0 ELSE 1 + FloorLog2(n \div 2)
CeilLog2(n) == IF n <= 1 THEN 0 ELSE 1 + FloorLog2(n - 1)

Records == SerializedPagesReader_num_pages(Backing)

\* C16 as claimed: every lookup over a directory of n records (whose request
\* passes the bounds assertions) issues exactly ceil(log2 n) positioned reads
\* of the page_idx field plus one positioned read of len(buf) bytes.
C16_ExactReads ==
    \A self \in Lookups :
       (lookups[self].pc = "done" /\ lookups[self].result.status = "ok") =>
          /\ lookups[self].idx_reads = CeilLog2(Records)
          /\ lookups[self].data_reads = 1

\* C16 as amended: every lookup over n records terminates after at most
\* floor(log2 n) + 1 positioned reads of the page_idx field (the candidate
\* range shrinks with every comparison that is not a match), at least one
\* unless an assertion rejects the request, and it issues one positioned read
\* of len(buf) bytes exactly when it finds a record with page_idx, else none.
C16_BoundedReads ==
    /\ [](\A self \in Lookups :
            LET l == lookups[self]
            IN  /\ l.idx_reads <= FloorLog2(Records) + 1
                /\ l.pc = "done" =>
                      /\ l.result.status = "ok" => l.idx_reads >= 1
                      /\ l.data_reads =
                            IF l.result.status = "ok" /\ l.page_idx \in DOMAIN snap
                            THEN 1 ELSE 0)
    /\ [][\A self \in Lookups :
            (lookups[self].pc = "decide" /\ lookups'[self].pc = "loop") =>
               (lookups'[self].right - lookups'[self].left
                   < lookups[self].right - lookups[self].left)]_pvars

\* C16 witness: a lookup over three records has returned a page after two
\* index reads and one data read.
C16_Witness ==
    \E self \in Lookups :
       /\ lookups[self].pc = "done"
       /\ Records = 3
       /\ lookups[self].idx_reads = 2
       /\ lookups[self].data_reads = 1
       /\ lookups[self].result.n > 0

\* --------------------------------------------------- the page-store claims
InBoundsRead(off, len) == off + len <= PAGESIZE

\* What a read of (idx, off, len) copies and returns, as a pair.
StoreRead(pg, idx, off, len) ==
    LET out == SparsePages_read(pg, idx, off, Buf(len))
    IN  [status |-> out.status, n |-> out.n, buf |-> out.buf]

\* C11: after any sequence of write and clear calls, read(idx, offset, buf)
\* with offset + len(buf) <= 4096 copies bytes [offset, offset + len(buf)) of
\* the page most recently written at idx since the last clear and returns
\* len(buf); with no such page it returns 0 and leaves buf as it was; and a
\* write at one index does not change what is read at any other index (the
\* whole page, or nothing where there is none).
C11_ReadLatest ==
    /\ [](\A idx \in PageIdxs, off \in Offsets, len \in BufLens :
            InBoundsRead(off, len) =>
               StoreRead(pages, idx, off, len) =
                  IF idx \in DOMAIN written
                  THEN [status |-> "ok", n |-> len,
                        buf |-> SubSeq(PageTable[written[idx]], off + 1, off + len)]
                  ELSE [status |-> "ok", n |-> 0, buf |-> Buf(len)])
    /\ [][plast'.op = "write" =>
            \A idx \in PageIdxs :
               ((idx \in DOMAIN written) = (idx \in DOMAIN written')
                  /\ (idx \in DOMAIN written => written'[idx] = written[idx])) =>
                  StoreRead(pages', idx, 0, PAGESIZE) = StoreRead(pages, idx, 0, PAGESIZE)]_pvars

\* C11 witness: a whole page has just been read from a store that holds
\* pages at two or more indices.
C11_Witness ==
    /\ plast.op = "read"
    /\ plast.status = "ok"
    /\ plast.n = PAGESIZE
    /\ Cardinality(DOMAIN pages) >= 2

\* C12: read(idx, offset, buf) with offset + len(buf) > 4096 is a bounds
\* violation for every page index, materialized or not; it never returns a
\* normal result.
C12_OutOfBoundsRejected ==
    \A idx \in PageIdxs, off \in Offsets, len \in BufLens :
       ~InBoundsRead(off, len) =>
          SparsePages_read(pages, idx, off, Buf(len)).status = "assert_bounds"

\* C13: for every non-empty store, the bytes written by serialize_into, read
\* through SerializedPagesReader, agree with the store: read returns the same
\* count and bytes for every page index and every in-bounds (offset, len),
\* max_page_idx is the greatest materialized index and num_pages the number
\* of materialized pages.
C13_RoundTrip ==
    DOMAIN pages # {} =>
       LET ser   == SparsePages_serialize_into(pages)
           bytes == ser.bytes
       IN  /\ ser.status = "ok"
           /\ \A idx \in PageIdxs, off \in Offsets, len \in BufLens :
                 InBoundsRead(off, len) =>
                    LET r == SerializedPagesReader_read(bytes, idx, off, Buf(len))
                    IN  [status |-> r.status, n |-> r.n, buf |-> r.buf]
                           = StoreRead(pages, idx, off, len)
           /\ SerializedPagesReader_max_page_idx(bytes)
                 = [status |-> "ok", idx |-> SparsePages_max_page_idx(pages).idx]
           /\ SerializedPagesReader_num_pages(bytes) = SparsePages_num_pages(pages)

\* C14: the reader rejects a request as a bounds violation if and only if
\* offset + len(buf) > 4096, for every (offset, len(buf)) including offset =
\* 4096 with an empty buf: the same precondition as the in-memory store's.
C14_SamePrecondition ==
    DOMAIN pages # {} =>
       LET bytes == SparsePages_serialize_into(pages).bytes
       IN  \A idx \in PageIdxs, off \in Offsets, len \in BufLens :
              (SerializedPagesReader_read(bytes, idx, off, Buf(len)).status
                  \in {"assert_offset", "assert_bounds"})
                 <=> ~InBoundsRead(off, len)

\* ------------------------------------------------------ replica catch-up
\* Two journals: A is <<range, data>>, the replica B is <<rangeB, dataB>>.
\* B learns A's entries only through B.write(A.read(cursor(B.range.end), n)).
\* A call that panics leaves both journals as they were.
ReplicaInit ==
    /\ range = Journal_new.range
    /\ data = Journal_new.data
    /\ rangeB = Journal_new.range
    /\ dataB = Journal_new.data
    /\ last = [op |-> "new", status |-> "ok"]
    /\ delivered = NoBatch
    /\ PagesIdle

\* A.append(entry)
AAppend ==
    /\ \E e \in Entries :
          LET out == Journal_append(range, data, e)
          IN  /\ InBounds(out)
              /\ range' = out.range
              /\ data' = out.data
    /\ UNCHANGED <<rangeB, dataB, last, delivered, pvars>>

\* A.rollup(lsn, compactor)
ARollup ==
    /\ \E lsn \in Lsns, cb \in {NoCompactor} \cup Compactors :
          LET out == Journal_rollup(range, data, lsn, cb)
          IN  /\ InBounds(out)
              /\ range' = out.range
              /\ data' = out.data
    /\ UNCHANGED <<rangeB, dataB, last, delivered, pvars>>

\* B.rollup(lsn, compactor)
BRollup ==
    /\ \E lsn \in Lsns, cb \in {NoCompactor} \cup Compactors :
          LET out == Journal_rollup(rangeB, dataB, lsn, cb)
          IN  /\ InBounds(out)
              /\ rangeB' = out.range
              /\ dataB' = out.data
    /\ UNCHANGED <<range, data, last, delivered, pvars>>

\* What B.write(A.read(cursor(rB.end), n)) leaves of B: a panic in the read
\* or in the write leaves B as it was.
Exchanged(rA, dA, rB, dB, n) ==
    LET rd == Journal_read(rA, dA, rB.end, n)
    IN  IF rd.status # "ok"
        THEN [status |-> rd.status, step |-> "read", range |-> rB, data |-> dB]
        ELSE LET wr == Journal_write(rB, dB, rd.batch)
             IN  [status |-> wr.status, step |-> "write",
                  range |-> wr.range, data |-> wr.data]

\* One exchange: B.write(A.read(cursor(B.range.end), n)).
Exchange ==
    /\ \E n \in 1..MaxReadLen :
          LET out == Exchanged(range, data, rangeB, dataB, n)
          IN  /\ InBounds(out)
              /\ rangeB' = out.range
              /\ dataB' = out.data
    /\ UNCHANGED <<range, data, last, delivered, pvars>>

ReplicaNext == AAppend \/ ARollup \/ BRollup \/ Exchange

SpecReplica == ReplicaInit /\ [][ReplicaNext]_<<vars, bvars, pvars>>

\* The sequence numbers a journal retains and holds an entry for.
Held(r, d) == {p \in r.start..(r.end - 1) : p - r.start < Len(d)}

\* Two journals agree at every sequence number both retain.
Agree(rA, dA, rB, dB) ==
    \A p \in Held(rA, dA) \cap Held(rB, dB) : EntryAt(rA, dA, p) = EntryAt(rB, dB, p)

\* C18: if B agrees with A at every sequence number both retain and
\* A.range.start <= B.range.end < A.range.end, then for every n >= 1 the
\* exchange B.write(A.read(cursor(B.range.end), n)) succeeds, leaves B agreeing
\* with A at every common sequence number, and advances B.range.end to
\* min(B.range.end + n, A.range.end), also after rollups of either journal.
C18_CatchUp ==
    (Agree(range, data, rangeB, dataB)
        /\ range.start <= rangeB.end /\ rangeB.end < range.end) =>
       \A n \in 1..MaxReadLen :
          LET out == Exchanged(range, data, rangeB, dataB, n)
          IN  /\ out.status = "ok"
              /\ Agree(range, data, out.range, out.data)
              /\ out.range.end = Min(rangeB.end + n, range.end)
              /\ out.range.end > rangeB.end

====
